---------------------------- MODULE Spec2Model ----------------------------
(***************************************************************************)
(* Model of scripts/sudoku.py: the puzzle corpus store (write, list,       *)
(* resolve), the picker used by `get`, and the script-array extractor.     *)
(*                                                                         *)
(* Text is modelled character by character: a string is a sequence of      *)
(* one-character strings, so that split, strip, lower, endswith, find and  *)
(* slicing are computed the way the Python code computes them.             *)
(*                                                                         *)
(* The puzzles directory is the sequence `corpus` of files in ascending    *)
(* st_mtime order (a write gives its file the newest mtime).               *)
(***************************************************************************)
EXTENDS Integers, Sequences, FiniteSets, TLC

VARIABLES
    corpus,      \* files of PUZZLES_DIR, oldest mtime first: [name, doc]
    now,         \* the wall clock, in seconds (what utc_stamp() formats)
    pc,          \* position of the running command: "idle", "select", "store"
    preset,      \* cmd_get: args.preset of the running get
    count,       \* cmd_get: count
    selected,    \* cmd_get: selected, the (puzzle, picked_idx, batch_total) still to store
    used_ids,    \* cmd_get: used_ids (batch mode)
    seen_ids,    \* cmd_get: seen_ids (batch mode)
    attempts,    \* cmd_get: attempts (batch mode)
    lastWrite,   \* history: the last write_puzzle_json that completed, [path, doc]
    res,         \* outcome of the last command that ended: resolve, pick, get
    html,        \* extractor: the page text
    scan,        \* extractor: the scanner's registers, or its outcome
    norm,        \* parse_preloaded_puzzles: blob, position of finditer, puzzles
    pick,        \* pick_puzzle: the arguments of a call and what it returned
    crop         \* cmd_reveal: the arguments of a crop and its rectangle

vars == <<corpus, now, pc, preset, count, selected, used_ids, seen_ids,
          attempts, lastWrite, res, html, scan, norm, pick, crop>>

None == [none |-> TRUE]

\* lastWrite before any write has completed, or after one was torn
NoWrite == [path |-> <<>>, doc |-> [ok |-> FALSE]]

\* an optional argument: absent, or given with value v
NoArg == [some |-> FALSE]

Arg(v) == [some |-> TRUE, v |-> v]

---------------------------------------------------------------------------
(* Bounds of the model.                                                    *)

\* the clock runs over seconds 1..MaxTime
MaxTime == 2

\* the directory holds at most MaxFiles files
MaxFiles == 3

\* `get --count N` is called with N in 2..MaxCount
MaxCount == 3

\* page bodies of up to MaxBody characters are enumerated for the extractor
MaxBody == 4

---------------------------------------------------------------------------
(* Text helpers (Python str methods).                                      *)

Min(S) == CHOOSE x \in S : \A y \in S : x <= y

Max(S) == CHOOSE x \in S : \A y \in S : x >= y

UpperChars == <<"A", "B", "C", "D", "E", "F", "T", "X", "Z">>

LowerChars == <<"a", "b", "c", "d", "e", "f", "t", "x", "z">>

\* str.lower() on one character (over the letters the model's texts use)
LowerChar(c) ==
    IF \E i \in 1..Len(UpperChars) : UpperChars[i] = c
    THEN LowerChars[CHOOSE i \in 1..Len(UpperChars) : UpperChars[i] = c]
    ELSE c

Lower(s) == [i \in 1..Len(s) |-> LowerChar(s[i])]

IsSpace(c) == c \in {" ", "\t", "\n", "\r"}

\* str.strip(): leading and trailing whitespace removed
Strip(s) ==
    LET keep == {i \in 1..Len(s) : ~IsSpace(s[i])}
    IN  IF keep = {} THEN <<>> ELSE SubSeq(s, Min(keep), Max(keep))

\* s.split("-")[0]
FirstSegment(s) ==
    LET hy == {i \in 1..Len(s) : s[i] = "-"}
    IN  IF hy = {} THEN s ELSE SubSeq(s, 1, Min(hy) - 1)

EndsWith(s, suf) ==
    /\ Len(suf) <= Len(s)
    /\ SubSeq(s, Len(s) - Len(suf) + 1, Len(s)) = suf

\* `needle in s`
Contains(needle, s) ==
    \E i \in 0..(Len(s) - Len(needle)) : SubSeq(s, i + 1, i + Len(needle)) = needle

\* s.find(m): 0-based position of the first occurrence, -1 when absent
Find(s, m) ==
    LET at == {i \in 0..(Len(s) - Len(m)) : SubSeq(s, i + 1, i + Len(m)) = m}
    IN  IF at = {} THEN -1 ELSE Min(at)

Reverse(s) == [i \in 1..Len(s) |-> s[Len(s) + 1 - i]]

Rep(c, n) == [i \in 1..n |-> c]

Digits == <<"0", "1", "2", "3", "4", "5", "6", "7", "8", "9">>

\* str(n) / f"{n}" for n >= 0
RECURSIVE DecStr(_)
DecStr(n) ==
    IF n < 10 THEN <<Digits[n + 1]>>
    ELSE DecStr(n \div 10) \o <<Digits[(n % 10) + 1]>>

HexChars == {"0", "1", "2", "3", "4", "5", "6", "7", "8", "9",
             "a", "b", "c", "d", "e", "f", "A", "B", "C", "D", "E", "F"}

\* the {1,64} of the identifier pattern
MaxIdLen == 64


---------------------------------------------------------------------------
(* The data the commands work on.                                          *)

Easy9 == <<"e", "a", "s", "y", "9">>

Kids4n == <<"k", "i", "d", "s", "4", "n">>

\* the keys of PRESETS a get is run with
PresetKeys == {Easy9, Kids4n}

IdAb1 == <<"a", "b", "-", "1">>

IdAb2 == <<"a", "b", "-", "2">>

IdAb3 == <<"a", "b", "-", "3">>

IdAb4 == <<"A", "b", "-", "4">>

\* one entry of preloadedPuzzles; `data` is abstracted to the size it decodes to
Puzzle(id, data) == [id |-> id, data |-> data]

\* decode_puzzle(data)[0]
decode_puzzle_size(data) == data

\* what one fetch_puzzles(preset.url) can return: the upstream rotates its batches
Upstream(key) ==
    IF key = Easy9
    THEN { <<Puzzle(IdAb1, 9), Puzzle(IdAb2, 9), Puzzle(IdAb3, 9)>>,
           <<>> }
    ELSE { <<Puzzle(IdAb4, 4), Puzzle(IdAb4, 4)>> }

MaxBatchLen == Max({Len(b) : b \in UNION {Upstream(k) : k \in PresetKeys}})

\* utc_stamp(): strftime of the clock; the date and hour-minute part, the same
\* for every second of the model, is abbreviated to "T"
utc_stamp(t) ==
    <<"T">> \o (IF t < 10 THEN <<"0">> ELSE <<>>) \o DecStr(t) \o <<"Z">>

\* a file whose text does not parse as JSON (truncated by a failed write_text)
TornDoc == [ok |-> FALSE]

---------------------------------------------------------------------------
(* Puzzle corpus store.                                                    *)

puzzle_json_filename(stamp, preset_key, size, puzzle_id) ==
    LET short == FirstSegment(puzzle_id)
    IN  stamp \o <<"_">> \o preset_key \o <<"_">> \o DecStr(size) \o <<"x">>
          \o DecStr(size) \o <<"_">> \o short \o <<".", "j", "s", "o", "n">>

\* the path write_puzzle_json derives for doc
DocPath(doc) ==
    puzzle_json_filename(doc.created_utc, doc.preset, doc.size, doc.id)

\* write_text that never replaces a file of the same name
WriteTextAppend(c, name, content) == Append(c, [name |-> name, doc |-> content])

\* Path.write_text on the directory: the file `name` is created or replaced
\* and gets the newest mtime
WriteText(c, name, content) ==
    Append(SelectSeq(c, LAMBDA f : f.name # name), [name |-> name, doc |-> content])

\* write_puzzle_json(doc) when write_text completes
write_puzzle_json(c, doc) == WriteText(c, DocPath(doc), doc)

\* list_puzzle_jsons sorting newest first
list_puzzle_jsons_newest_first(c) == Reverse(c)

\* sorted(PUZZLES_DIR.glob("*.json"), key=st_mtime)
list_puzzle_jsons(c) == c

\* latest_puzzle_json()
latest_puzzle_json(c) ==
    LET files == list_puzzle_jsons(c)
    IN  IF files = <<>> THEN [status |-> "EmptyCorpus", path |-> <<>>]
        ELSE [status |-> "ok", path |-> files[Len(files)].name]

_previously_used_puzzle_ids(c) ==
    {c[i].doc.id : i \in {j \in 1..Len(c) : c[j].doc.ok /\ c[j].doc.id # <<>>}}

\* _normalize_id_fragment with the pattern [0-9A-Fa-f-]+ (no length limit)
normalize_id_fragment_unbounded(value) ==
    LET s == Strip(value)
    IN  IF s = <<>> THEN [ok |-> FALSE, s |-> s]
        ELSE IF ~(\A i \in 1..Len(s) : s[i] \in HexChars \cup {"-"})
        THEN [ok |-> FALSE, s |-> s]
        ELSE [ok |-> TRUE, s |-> s]

_normalize_id_fragment(value) ==
    LET s == Strip(value)
    IN  IF s = <<>> THEN [ok |-> FALSE, s |-> s]
        ELSE IF ~(Len(s) <= MaxIdLen /\ \A i \in 1..Len(s) : s[i] \in HexChars \cup {"-"})
        THEN [ok |-> FALSE, s |-> s]
        ELSE [ok |-> TRUE, s |-> s]

HasHyphen(s) == \E i \in 1..Len(s) : s[i] = "-"

JsonSuffix(sid) == <<"_">> \o sid \o <<".", "j", "s", "o", "n">>

\* json.loads(p.read_text()) and the comparison of picked.id
PickedIdIs(f, normalized) ==
    f.doc.ok /\ Lower(f.doc.id) = Lower(normalized)

\* ScanFor with the files taken in the opposite order (the last match wins)
ScanForOldestFirst(files, normalized) ==
    LET hits == {i \in 1..Len(files) : PickedIdIs(files[i], normalized)}
        upto == IF hits = {} THEN Len(files) ELSE Max(hits)
    IN  [found |-> hits # {},
         path  |-> IF hits = {} THEN <<>> ELSE files[Max(hits)].name,
         reads |-> [i \in 1..upto |-> files[i].name]]

\* ScanFor that accepts the first file without comparing picked.id
ScanForUnverified(files, normalized) ==
    [found |-> files # <<>>,
     path  |-> IF files = <<>> THEN <<>> ELSE files[1].name,
     reads |-> IF files = <<>> THEN <<>> ELSE <<files[1].name>>]

\* `for p in files: ... return p` : the first file whose picked.id matches, and
\* the files read on the way
ScanFor(files, normalized) ==
    LET hits == {i \in 1..Len(files) : PickedIdIs(files[i], normalized)}
        upto == IF hits = {} THEN Len(files) ELSE Min(hits)
    IN  [found |-> hits # {},
         path  |-> IF hits = {} THEN <<>> ELSE files[Min(hits)].name,
         reads |-> [i \in 1..upto |-> files[i].name]]

find_puzzle_json_by_short_id(c, short_id) ==
    LET n == _normalize_id_fragment(short_id)
        sid == Lower(FirstSegment(n.s))
        matches == SelectSeq(list_puzzle_jsons(c),
                             LAMBDA f : EndsWith(Lower(f.name), JsonSuffix(sid)))
    IN  IF ~n.ok THEN [status |-> "InvalidIdentifier", path |-> <<>>, reads |-> <<>>]
        ELSE IF matches = <<>> THEN [status |-> "NotFound", path |-> <<>>, reads |-> <<>>]
        ELSE [status |-> "ok", path |-> matches[Len(matches)].name, reads |-> <<>>]

\* find_puzzle_json_by_id returning candidates[0] for a short id
find_puzzle_json_by_id_first(c, puzzle_id) ==
    LET n == _normalize_id_fragment(puzzle_id)
        normalized == n.s
        sid == Lower(FirstSegment(normalized))
        candidates == SelectSeq(list_puzzle_jsons(c),
                                LAMBDA f : EndsWith(Lower(f.name), JsonSuffix(sid)))
        fast == ScanFor(Reverse(candidates), normalized)
        fastReads == IF candidates = <<>> THEN <<>> ELSE fast.reads
        slow == ScanFor(Reverse(list_puzzle_jsons(c)), normalized)
    IN  IF ~n.ok
        THEN [status |-> "InvalidIdentifier", path |-> <<>>, reads |-> <<>>]
        ELSE IF candidates # <<>> /\ ~HasHyphen(normalized)
        THEN [status |-> "ok", path |-> candidates[1].name, reads |-> <<>>]
        ELSE IF candidates # <<>> /\ fast.found
        THEN [status |-> "ok", path |-> fast.path, reads |-> fast.reads]
        ELSE IF slow.found
        THEN [status |-> "ok", path |-> slow.path, reads |-> fastReads \o slow.reads]
        ELSE [status |-> "NotFound", path |-> <<>>, reads |-> fastReads \o slow.reads]

find_puzzle_json_by_id(c, puzzle_id) ==
    LET n == _normalize_id_fragment(puzzle_id)
        normalized == n.s
        sid == Lower(FirstSegment(normalized))
        candidates == SelectSeq(list_puzzle_jsons(c),
                                LAMBDA f : EndsWith(Lower(f.name), JsonSuffix(sid)))
        fast == ScanFor(Reverse(candidates), normalized)
        fastReads == IF candidates = <<>> THEN <<>> ELSE fast.reads
        slow == ScanFor(Reverse(list_puzzle_jsons(c)), normalized)
    IN  IF ~n.ok
        THEN [status |-> "InvalidIdentifier", path |-> <<>>, reads |-> <<>>]
        ELSE IF candidates # <<>> /\ ~HasHyphen(normalized)
        THEN [status |-> "ok", path |-> candidates[Len(candidates)].name, reads |-> <<>>]
        ELSE IF candidates # <<>> /\ fast.found
        THEN [status |-> "ok", path |-> fast.path, reads |-> fast.reads]
        ELSE IF slow.found
        THEN [status |-> "ok", path |-> slow.path, reads |-> fastReads \o slow.reads]
        ELSE [status |-> "NotFound", path |-> <<>>, reads |-> fastReads \o slow.reads]

---------------------------------------------------------------------------
(* Picker.                                                                 *)

\* the (i, p) pairs of enumerate(puzzles) at the positions idx, in order
Enumerated(puzzles, idx) ==
    LET RECURSIVE Build(_)
        Build(k) == IF k > Len(puzzles) THEN <<>>
                    ELSE IF k \in idx
                         THEN <<[i |-> k - 1, p |-> puzzles[k]]>> \o Build(k + 1)
                         ELSE Build(k + 1)
    IN  Build(1)

\* RandomPool without the preference for unused ids
RandomPoolAll(puzzles, used) == Enumerated(puzzles, 1..Len(puzzles))

\* the pool pick_puzzle draws from in random mode
RandomPool(puzzles, used) ==
    LET fresh == Enumerated(puzzles,
                            {k \in 1..Len(puzzles) : puzzles[k].id \notin used})
    IN  IF fresh # <<>> THEN fresh ELSE Enumerated(puzzles, 1..Len(puzzles))

Failure(status) == [status |-> status, ids |-> <<>>, extra |-> 0, n |-> 0]

\* pick_puzzle that settles an ambiguous fragment by its first match
pick_puzzle_first_match(puzzles, index, puzzle_id, used, r) ==
    IF puzzles = <<>> THEN Failure("NoPuzzles")
    ELSE IF puzzle_id.some
    THEN LET n == _normalize_id_fragment(puzzle_id.v)
             needle == Lower(n.s)
             matches == Enumerated(puzzles,
                          {k \in 1..Len(puzzles) : Contains(needle, Lower(puzzles[k].id))})
         IN  IF ~n.ok THEN Failure("InvalidIdentifier")
             ELSE IF matches = <<>> THEN Failure("NotFound")
             ELSE [status |-> "ok", puzzle |-> matches[1].p, i |-> matches[1].i]
    ELSE IF index.some
    THEN LET i == IF index.v = 0 THEN 0 ELSE index.v - 1
         IN  IF i < 0 \/ i >= Len(puzzles) THEN Failure("IndexOutOfRange")
             ELSE [status |-> "ok", puzzle |-> puzzles[i + 1], i |-> i]
    ELSE LET pool == RandomPool(puzzles, used)
         IN  [status |-> "ok", puzzle |-> pool[r + 1].p, i |-> pool[r + 1].i]

\* pick_puzzle(puzzles, index=, puzzle_id=); r is what rng.randrange(len(pool)) returns
pick_puzzle(puzzles, index, puzzle_id, used, r) ==
    IF puzzles = <<>> THEN Failure("NoPuzzles")
    ELSE IF puzzle_id.some
    THEN LET n == _normalize_id_fragment(puzzle_id.v)
             needle == Lower(n.s)
             matches == Enumerated(puzzles,
                          {k \in 1..Len(puzzles) : Contains(needle, Lower(puzzles[k].id))})
         IN  IF ~n.ok THEN Failure("InvalidIdentifier")
             ELSE IF matches = <<>> THEN Failure("NotFound")
             ELSE IF Len(matches) > 1
             THEN [status |-> "AmbiguousIdentifier",
                   ids |-> [k \in 1..(IF Len(matches) < 5 THEN Len(matches) ELSE 5)
                              |-> matches[k].p.id],
                   extra |-> IF Len(matches) <= 5 THEN 0 ELSE Len(matches) - 5,
                   n |-> Len(matches)]
             ELSE [status |-> "ok", puzzle |-> matches[1].p, i |-> matches[1].i]
    ELSE IF index.some
    THEN LET i == IF index.v = 0 THEN 0 ELSE index.v - 1
         IN  IF i < 0 \/ i >= Len(puzzles) THEN Failure("IndexOutOfRange")
             ELSE [status |-> "ok", puzzle |-> puzzles[i + 1], i |-> i]
    ELSE LET pool == RandomPool(puzzles, used)
         IN  [status |-> "ok", puzzle |-> pool[r + 1].p, i |-> pool[r + 1].i]

---------------------------------------------------------------------------
(* The commands.                                                           *)

\* identifiers given to `--id` of render/html/reveal (find_puzzle_json_by_id)
Queries ==
    { <<"a", "b">>, IdAb1, <<"A", "B", "-", "1">>, IdAb3, <<"a", "b", "-", "4">>,
      <<"a", "b", "-", "9">>, <<"c", "d">>,
      <<" ", "a", "b", "-", "1", "\n">>,
      <<>>, <<" ", " ">>, <<"a", "g">>,
      Rep("a", MaxIdLen), Rep("a", MaxIdLen + 1),
      <<" ">> \o Rep("a", MaxIdLen) \o <<" ">> }

\* identifiers given to `get --id`
GetIds == { <<"a", "b">>, <<"B", "-", "1">>, <<"-", "4">>, <<"f", "f">>, <<"x">> }

\* a command ends: it reports its outcome and its locals are gone
Ended ==
    /\ pc' = "exit"
    /\ preset' = <<>>
    /\ count' = 0
    /\ selected' = <<>>
    /\ used_ids' = {}
    /\ seen_ids' = {}
    /\ attempts' = 0

\* a budget of 5 attempts whatever the count
max_attempts_five(n) == 5

max_attempts(n) == IF 5 > n * 4 THEN 5 ELSE n * 4

\* the document cmd_get builds for one selected item at clock t
MakeDoc(item, key, t) ==
    [ok |-> TRUE,
     created_utc |-> utc_stamp(t),
     preset |-> key,
     id |-> item.puzzle.id,
     index |-> item.i,
     total |-> item.total,
     size |-> decode_puzzle_size(item.puzzle.data)]

Init ==
    /\ corpus = <<>>
    /\ now = 1
    /\ pc = "idle"
    /\ preset = <<>>
    /\ count = 0
    /\ selected = <<>>
    /\ used_ids = {}
    /\ seen_ids = {}
    /\ attempts = 0
    /\ lastWrite = NoWrite
    /\ res = None
    /\ html = <<>>
    /\ scan = None
    /\ norm = None
    /\ pick = None
    /\ crop = None

\* a second passes
Tick ==
    /\ pc \in {"idle", "store"}
    /\ now < MaxTime
    /\ now' = now + 1
    /\ res' = None
    /\ UNCHANGED <<corpus, pc, preset, count, selected, used_ids, seen_ids,
                   attempts, lastWrite, html, scan,
                   norm, pick, crop>>

\* the process of the command that ended exits
Exit ==
    /\ pc = "exit"
    /\ pc' = "idle"
    /\ res' = None
    /\ UNCHANGED <<corpus, now, preset, count, selected, used_ids, seen_ids,
                   attempts, lastWrite, html, scan,
                   norm, pick, crop>>

\* render/html/reveal --id q: load_puzzle_doc -> find_puzzle_json_by_id
Resolve ==
    /\ pc = "idle"
    /\ pc' = "exit"
    /\ \E q \in Queries :
         LET r == find_puzzle_json_by_id(corpus, q)
         IN  res' = [op |-> "resolve", q |-> q, status |-> r.status,
                     path |-> r.path, reads |-> r.reads]
    /\ UNCHANGED <<corpus, now, preset, count, selected, used_ids, seen_ids,
                   attempts, lastWrite, html, scan,
                   norm, pick, crop>>

\* cmd_get, count == 1: one fetch, pick_puzzle(puzzles, puzzle_id=args.id)
GetSingle ==
    /\ pc = "idle"
    /\ \E key \in PresetKeys, id \in {Arg(g) : g \in GetIds} \cup {NoArg}, r \in 0..(MaxBatchLen - 1) :
       \E puzzles \in Upstream(key) :
         LET used == _previously_used_puzzle_ids(corpus)
             pk == pick_puzzle(puzzles, NoArg, id, used, r)
         IN  /\ (puzzles # <<>> /\ ~id.some) => r < Len(RandomPool(puzzles, used))
             /\ (puzzles = <<>> \/ id.some) => r = 0
             /\ IF pk.status = "ok"
                THEN /\ pc' = "store"
                     /\ preset' = key
                     /\ count' = 1
                     /\ selected' = <<[puzzle |-> pk.puzzle, i |-> pk.i,
                                       total |-> Len(puzzles)]>>
                     /\ res' = None
                     /\ UNCHANGED <<used_ids, seen_ids, attempts>>
                ELSE /\ Ended
                     /\ res' = [op |-> "pick", q |-> id, batch |-> puzzles,
                                status |-> pk.status, ids |-> pk.ids,
                                extra |-> pk.extra, n |-> pk.n]
    /\ UNCHANGED <<corpus, now, lastWrite, html, scan,
                   norm, pick, crop>>

\* the most items a batch run can select from the upstream of key over the
\* directory c: every unused id, as often as one batch repeats it
NewEntries(key, c) ==
    LET used == _previously_used_puzzle_ids(c)
        ids == UNION {{b[k].id : k \in 1..Len(b)} : b \in Upstream(key)} \ used
        most(id) == Max({Cardinality({k \in 1..Len(b) : b[k].id = id}) : b \in Upstream(key)})
        RECURSIVE Sum(_)
        Sum(S) == IF S = {} THEN 0
                  ELSE LET x == CHOOSE y \in S : TRUE IN most(x) + Sum(S \ {x})
    IN  Sum(ids)

\* cmd_get, count > 1: the state before the first fetch. The directory has
\* room for every document the run can write, and for all but one of the
\* documents it asks for.
GetBatchStart ==
    /\ pc = "idle"
    /\ \E key \in PresetKeys, n \in 2..MaxCount :
         /\ Len(corpus) + n <= MaxFiles + 1
         /\ Len(corpus) + Min({n, NewEntries(key, corpus)}) <= MaxFiles
         /\ preset' = key
         /\ count' = n
    /\ pc' = "select"
    /\ used_ids' = _previously_used_puzzle_ids(corpus)
    /\ seen_ids' = {}
    /\ attempts' = 0
    /\ selected' = <<>>
    /\ res' = None
    /\ UNCHANGED <<corpus, now, lastWrite, html, scan,
                   norm, pick, crop>>

\* the orders random.shuffle can leave a list of n items in
Shuffles(n) == {f \in [1..n -> 1..n] : \A a, b \in 1..n : f[a] = f[b] => a = b}

\* one turn of the while loop: a fetch, the fresh items, shuffle, take `needed`
GetBatchFetch ==
    /\ pc = "select"
    /\ Len(selected) < count
    /\ attempts < max_attempts(count)
    /\ attempts' = attempts + 1
    /\ \E puzzles \in Upstream(preset) :
         LET fresh == Enumerated(puzzles,
                        {k \in 1..Len(puzzles) : /\ puzzles[k].id \notin used_ids
                                                 /\ puzzles[k].id \notin seen_ids})
             needed == count - Len(selected)
         IN  IF fresh = <<>>
             THEN UNCHANGED <<selected, seen_ids>>
             ELSE \E f \in Shuffles(Len(fresh)) :
                    LET shuffled == [k \in 1..Len(fresh) |-> fresh[f[k]]]
                        take == SubSeq(shuffled, 1,
                                       IF needed < Len(fresh) THEN needed ELSE Len(fresh))
                    IN  /\ selected' = selected \o
                              [k \in 1..Len(take) |->
                                 [puzzle |-> take[k].p, i |-> take[k].i,
                                  total |-> Len(puzzles)]]
                        /\ seen_ids' = seen_ids \cup {take[k].p.id : k \in 1..Len(take)}
    /\ res' = None
    /\ UNCHANGED <<corpus, now, pc, preset, count, used_ids, lastWrite, html, scan,
                   norm, pick, crop>>

\* GetBatchEnd that stores what it has collected before it fails
GetBatchEndStoring ==
    /\ pc = "select"
    /\ ~(Len(selected) < count /\ attempts < max_attempts(count))
    /\ IF Len(selected) < count
       THEN /\ Ended
            /\ corpus' = IF selected = <<>> THEN corpus
                          ELSE write_puzzle_json(corpus, MakeDoc(Head(selected), preset, now))
            /\ res' = [op |-> "get", status |-> "InsufficientUniquePuzzles",
                       obtained |-> Len(selected), attempts |-> attempts,
                       requested |-> count, preset |-> preset]
       ELSE /\ pc' = "store"
            /\ res' = None
            /\ used_ids' = {}
            /\ seen_ids' = {}
            /\ attempts' = 0
            /\ UNCHANGED <<corpus, preset, count, selected>>
    /\ UNCHANGED <<now, lastWrite, html, scan, norm, pick, crop>>

\* the while loop ends: enough items, or the attempts are used up
GetBatchEnd ==
    /\ pc = "select"
    /\ ~(Len(selected) < count /\ attempts < max_attempts(count))
    /\ IF Len(selected) < count
       THEN /\ Ended
            /\ res' = [op |-> "get", status |-> "InsufficientUniquePuzzles",
                       obtained |-> Len(selected), attempts |-> attempts,
                       requested |-> count, preset |-> preset]
       ELSE /\ pc' = "store"
            /\ res' = None
            /\ used_ids' = {}
            /\ seen_ids' = {}
            /\ attempts' = 0
            /\ UNCHANGED <<preset, count, selected>>
    /\ UNCHANGED <<corpus, now, lastWrite, html, scan,
                   norm, pick, crop>>

\* one turn of `for puzzle, picked_idx, batch_total in selected`: the document
\* is built with the clock's stamp and write_puzzle_json completes
StoreOk ==
    /\ pc = "store"
    /\ selected # <<>>
    /\ LET doc == MakeDoc(Head(selected), preset, now)
       IN  /\ Len(write_puzzle_json(corpus, doc)) <= MaxFiles
           /\ corpus' = write_puzzle_json(corpus, doc)
           /\ lastWrite' = [path |-> DocPath(doc), doc |-> doc]
    /\ IF Tail(selected) = <<>>
       THEN /\ Ended
            /\ res' = [op |-> "get", status |-> "ok"]
       ELSE /\ selected' = Tail(selected)
            /\ res' = None
            /\ UNCHANGED <<pc, preset, count, used_ids, seen_ids, attempts>>
    /\ UNCHANGED <<now, html, scan,
                   norm, pick, crop>>

\* write_text opens the file (creating or truncating it) and then fails or the
\* process is killed before the text is complete: cmd_get ends with the error
StoreTorn ==
    /\ pc = "store"
    /\ selected # <<>>
    /\ LET doc == MakeDoc(Head(selected), preset, now)
       IN  /\ Len(WriteText(corpus, DocPath(doc), TornDoc)) <= MaxFiles
           /\ corpus' = WriteText(corpus, DocPath(doc), TornDoc)
    /\ lastWrite' = NoWrite
    /\ Ended
    /\ res' = [op |-> "get", status |-> "WriteFailed"]
    /\ UNCHANGED <<now, html, scan,
                   norm, pick, crop>>

\* write_text fails to open the file: nothing is written, cmd_get ends
StoreDenied ==
    /\ pc = "store"
    /\ selected # <<>>
    /\ Ended
    /\ res' = [op |-> "get", status |-> "WriteFailed"]
    /\ UNCHANGED <<corpus, now, lastWrite, html, scan,
                   norm, pick, crop>>

Next ==
    \/ Tick
    \/ Exit
    \/ Resolve
    \/ GetSingle
    \/ GetBatchStart
    \/ GetBatchFetch
    \/ GetBatchEnd
    \/ StoreOk
    \/ StoreTorn
    \/ StoreDenied

Spec == Init /\ [][Next]_vars

---------------------------------------------------------------------------
(* Script-array extractor.                                                 *)

PreloadedPuzzles ==
    <<"p", "r", "e", "l", "o", "a", "d", "e", "d", "P", "u", "z", "z", "l", "e", "s">>

\* marker = f"const {var_name} = ["
Marker(var_name) ==
    <<"c", "o", "n", "s", "t", " ">> \o var_name \o <<" ", "=", " ", "[">>

\* ScanStart with html.rfind(marker): the last occurrence of the marker
ScanStartLast(h, var_name) ==
    LET marker == Marker(var_name)
        at == {i \in 0..(Len(h) - Len(marker)) : SubSeq(h, i + 1, i + Len(marker)) = marker}
        marker_pos == IF at = {} THEN -1 ELSE Max(at)
        start == marker_pos + Len(marker) - 1
    IN  IF marker_pos < 0
        THEN [pc |-> "done", status |-> "NotFound", out |-> <<>>]
        ELSE [pc |-> "scan", start |-> start, i |-> start, depth |-> 0,
              in_string |-> FALSE, string_quote |-> "", escape |-> FALSE]

\* html.find(marker) and the registers before the first turn of the loop
ScanStart(h, var_name) ==
    LET marker == Marker(var_name)
        marker_pos == Find(h, marker)
        start == marker_pos + Len(marker) - 1
    IN  IF marker_pos < 0
        THEN [pc |-> "done", status |-> "NotFound", out |-> <<>>]
        ELSE [pc |-> "scan", start |-> start, i |-> start, depth |-> 0,
              in_string |-> FALSE, string_quote |-> "", escape |-> FALSE]

\* ScanStep that takes the end of the text for the end of the array
ScanStepLenient(h, r) ==
    LET ch == h[r.i + 1]
        next == [r EXCEPT !.i = r.i + 1]
    IN  IF r.i >= Len(h)
        THEN [pc |-> "done", status |-> "ok",
              out |-> SubSeq(h, r.start + 2, Len(h))]
        ELSE IF r.in_string
        THEN IF r.escape THEN [next EXCEPT !.escape = FALSE]
             ELSE IF ch = "\\" THEN [next EXCEPT !.escape = TRUE]
             ELSE IF ch = r.string_quote THEN [next EXCEPT !.in_string = FALSE]
             ELSE next
        ELSE IF ch \in {"'", "\""}
        THEN [next EXCEPT !.in_string = TRUE, !.string_quote = ch]
        ELSE IF ch = "["
        THEN [next EXCEPT !.depth = r.depth + 1]
        ELSE IF ch = "]"
        THEN IF r.depth - 1 = 0
             THEN [pc |-> "done", status |-> "ok",
                   out |-> SubSeq(h, r.start + 2, r.i)]
             ELSE [next EXCEPT !.depth = r.depth - 1]
        ELSE next

\* ScanStep without the escape flag: a backslash is an ordinary character
ScanStepNoEscape(h, r) ==
    LET ch == h[r.i + 1]
        next == [r EXCEPT !.i = r.i + 1]
    IN  IF r.i >= Len(h)
        THEN [pc |-> "done", status |-> "MalformedInput", out |-> <<>>]
        ELSE IF r.in_string
        THEN IF r.escape THEN [next EXCEPT !.escape = FALSE]
             ELSE IF ch = r.string_quote THEN [next EXCEPT !.in_string = FALSE]
             ELSE next
        ELSE IF ch \in {"'", "\""}
        THEN [next EXCEPT !.in_string = TRUE, !.string_quote = ch]
        ELSE IF ch = "["
        THEN [next EXCEPT !.depth = r.depth + 1]
        ELSE IF ch = "]"
        THEN IF r.depth - 1 = 0
             THEN [pc |-> "done", status |-> "ok",
                   out |-> SubSeq(h, r.start + 2, r.i)]
             ELSE [next EXCEPT !.depth = r.depth - 1]
        ELSE next

\* one turn of `for i in range(start, len(html))`, or the raise after the loop
ScanStep(h, r) ==
    LET ch == h[r.i + 1]
        next == [r EXCEPT !.i = r.i + 1]
    IN  IF r.i >= Len(h)
        THEN [pc |-> "done", status |-> "MalformedInput", out |-> <<>>]
        ELSE IF r.in_string
        THEN IF r.escape THEN [next EXCEPT !.escape = FALSE]
             ELSE IF ch = "\\" THEN [next EXCEPT !.escape = TRUE]
             ELSE IF ch = r.string_quote THEN [next EXCEPT !.in_string = FALSE]
             ELSE next
        ELSE IF ch \in {"'", "\""}
        THEN [next EXCEPT !.in_string = TRUE, !.string_quote = ch]
        ELSE IF ch = "["
        THEN [next EXCEPT !.depth = r.depth + 1]
        ELSE IF ch = "]"
        THEN IF r.depth - 1 = 0
             THEN [pc |-> "done", status |-> "ok",
                   out |-> SubSeq(h, r.start + 2, r.i)]
             ELSE [next EXCEPT !.depth = r.depth - 1]
        ELSE next

RECURSIVE ScanRun(_, _)
ScanRun(h, r) == IF r.pc = "done" THEN r ELSE ScanRun(h, ScanStep(h, r))

\* _extract_js_array_contents(html, var_name): [status, out]
_extract_js_array_contents(h, var_name) == ScanRun(h, ScanStart(h, var_name))

\* the characters page bodies are made of
Alphabet == {"[", "]", "'", "\"", "\\", "a"}

Bodies == UNION {[1..n -> Alphabet] : n \in 0..MaxBody}

\* the value "a\\]b" of the array
EscapedBody == <<"\"", "a", "\\", "\\", "]", "b", "\"">>

\* the pages given to the extractor: every body after the marker, closed by
\* "];", and pages without the marker, without `const`, and with two arrays
Pages ==
    {Marker(PreloadedPuzzles) \o b \o <<"]", ";">> : b \in Bodies}
    \cup {Marker(PreloadedPuzzles) \o EscapedBody \o <<"]", ";">>,
          Marker(PreloadedPuzzles) \o <<"a">>,
          <<"<", "p", ">">>,
          <<"v", "a", "r", " ">> \o PreloadedPuzzles \o <<" ", "=", " ", "[", "a", "]", ";">>,
          PreloadedPuzzles \o <<" ", "=", " ", "[", "b", "]", ";">>
              \o Marker(PreloadedPuzzles) \o <<"a", "]", ";">>,
          Marker(PreloadedPuzzles) \o <<"a", "]", ";">>
              \o Marker(PreloadedPuzzles) \o <<"b", "]", ";">>}

ExtractInit ==
    /\ corpus = <<>>
    /\ now = 1
    /\ pc = "idle"
    /\ preset = <<>>
    /\ count = 0
    /\ selected = <<>>
    /\ used_ids = {}
    /\ seen_ids = {}
    /\ attempts = 0
    /\ lastWrite = NoWrite
    /\ res = None
    /\ html \in Pages
    /\ scan = [pc |-> "call"]
    /\ norm = None
    /\ pick = None
    /\ crop = None

\* the call: the marker is searched
Locate ==
    /\ scan.pc = "call"
    /\ scan' = ScanStart(html, PreloadedPuzzles)
    /\ UNCHANGED <<html, norm, pick, crop, corpus, now, pc, preset, count, selected, used_ids,
                   seen_ids, attempts, lastWrite, res>>

\* one turn of the scanning loop
Scan ==
    /\ scan.pc = "scan"
    /\ scan' = ScanStep(html, scan)
    /\ UNCHANGED <<html, norm, pick, crop, corpus, now, pc, preset, count, selected, used_ids,
                   seen_ids, attempts, lastWrite, res>>

ExtractNext == Locate \/ Scan

ExtractSpec == ExtractInit /\ [][ExtractNext]_vars

---------------------------------------------------------------------------
(* Lenient object normalizer: parse_preloaded_puzzles.                     *)

\* the greatest number of fragments in an embedded array
MaxFrags == 3

\* the text of a quoted string
Quoted(q, s) == <<q>> \o s \o <<q>>

\* the member `key: value`, both quoted with q
Member(q, k, v) == Quoted(q, k) \o <<":">> \o Quoted(q, v)

KeyId == <<"i", "d">>

KeyData == <<"d", "a", "t", "a">>

\* the fragments an embedded array is made of: records in the dialect's
\* single quotes and in double quotes, a record without data, a record whose
\* data is null, a fragment cut before its closing brace, a fragment with a
\* missing value, a double-quoted record holding a single quote, and a record
\* whose id holds a closing brace
Fragments ==
    {<<"{">> \o Member("'", KeyId, <<"a">>) \o <<",">>
            \o Member("'", KeyData, <<"x">>) \o <<"}">>,
     <<"{">> \o Member("\"", KeyId, <<"b">>) \o <<",", " ">>
            \o Member("\"", KeyData, <<"y">>) \o <<"}">>,
     <<"{">> \o Member("'", KeyId, <<"c">>) \o <<"}">>,
     <<"{">> \o Member("'", KeyId, <<"n">>) \o <<",">>
            \o Quoted("'", KeyData) \o <<":", "n", "u", "l", "l", "}">>,
     <<"{">> \o Member("'", KeyId, <<"d">>) \o <<",">>
            \o Quoted("'", KeyData) \o <<":">>,
     <<"{">> \o Member("'", KeyId, <<"e">>) \o <<",">>
            \o Quoted("'", KeyData) \o <<":", "}">>,
     <<"{">> \o Member("\"", KeyId, <<"f", "'", "g">>) \o <<",">>
            \o Member("\"", KeyData, <<"z">>) \o <<"}">>,
     <<"{">> \o Member("'", KeyId, <<"h", "}">>) \o <<",">>
            \o Member("'", KeyData, <<"w">>) \o <<"}">>}

\* the fragments of an array, separated by commas
RECURSIVE JoinFragments(_)
JoinFragments(fs) ==
    IF fs = <<>> THEN <<>>
    ELSE IF Len(fs) = 1 THEN fs[1]
    ELSE fs[1] \o <<",">> \o JoinFragments(Tail(fs))

\* the page that embeds the fragments fs
PageOf(fs) == Marker(PreloadedPuzzles) \o JoinFragments(fs) \o <<"]", ";">>

\* re.finditer(r"\{[^}]+\}", blob), next match at or after position pos
\* (1-based): the first `{` that is followed by at least one character other
\* than `}` and then by `}`; the match ends at the first `}` after it
NextMatch(blob, pos) ==
    LET closing(p) == {e \in (p + 1)..Len(blob) : blob[e] = "}"}
        at == {p \in pos..Len(blob) :
                  /\ blob[p] = "{"
                  /\ closing(p) # {}
                  /\ Min(closing(p)) > p + 1}
    IN  IF at = {} THEN [found |-> FALSE, from |-> 0, to |-> 0]
        ELSE [found |-> TRUE, from |-> Min(at), to |-> Min(closing(Min(at)))]

\* s.replace("'", '"'); the three re.sub calls before it replace the words
\* true, false and null by themselves
RewriteQuotes(s) == [k \in 1..Len(s) |-> IF s[k] = "'" THEN "\"" ELSE s[k]]

JsonWords == {<<"t", "r", "u", "e">>, <<"f", "a", "l", "s", "e">>,
              <<"n", "u", "l", "l">>}

BadJson == [ok |-> FALSE, toks |-> <<>>]

\* the JSON tokens of s from position i: punctuation, strings, and the words
\* true, false, null; blanks between tokens are skipped
RECURSIVE JsonTokens(_, _)
JsonTokens(s, i) ==
    IF i > Len(s) THEN [ok |-> TRUE, toks |-> <<>>]
    ELSE IF s[i] = " " THEN JsonTokens(s, i + 1)
    ELSE IF s[i] \in {"{", "}", ":", ","}
    THEN LET rest == JsonTokens(s, i + 1)
         IN  IF rest.ok
             THEN [ok |-> TRUE, toks |-> <<[t |-> s[i], v |-> <<>>]>> \o rest.toks]
             ELSE BadJson
    ELSE IF s[i] = "\""
    THEN LET ends == {j \in (i + 1)..Len(s) : s[j] = "\""}
         IN  IF ends = {} THEN BadJson
             ELSE LET rest == JsonTokens(s, Min(ends) + 1)
                  IN  IF rest.ok
                      THEN [ok |-> TRUE,
                            toks |-> <<[t |-> "str", v |-> SubSeq(s, i + 1, Min(ends) - 1)]>>
                                     \o rest.toks]
                      ELSE BadJson
    ELSE LET words == {w \in JsonWords :
                          /\ i + Len(w) - 1 <= Len(s)
                          /\ SubSeq(s, i, i + Len(w) - 1) = w}
         IN  IF words = {} THEN BadJson
             ELSE LET w == CHOOSE x \in words : TRUE
                      rest == JsonTokens(s, i + Len(w))
                  IN  IF rest.ok
                      THEN [ok |-> TRUE, toks |-> <<[t |-> "word", v |-> w]>> \o rest.toks]
                      ELSE BadJson

NoObject == [k \in {} |-> <<>>]

BadObject == [ok |-> FALSE, obj |-> NoObject]

\* the members of an object from token i on, added to obj (a later member
\* replaces an earlier one of the same key); the closing brace ends the text
RECURSIVE JsonMembers(_, _, _)
JsonMembers(toks, i, obj) ==
    IF i + 3 > Len(toks) THEN BadObject
    ELSE IF toks[i].t # "str" \/ toks[i + 1].t # ":"
            \/ toks[i + 2].t \notin {"str", "word"}
    THEN BadObject
    ELSE LET added == [k \in DOMAIN obj \cup {toks[i].v} |->
                          IF k = toks[i].v THEN toks[i + 2] ELSE obj[k]]
         IN  IF toks[i + 3].t = "}"
             THEN IF i + 3 = Len(toks) THEN [ok |-> TRUE, obj |-> added]
                  ELSE BadObject
             ELSE IF toks[i + 3].t = ","
             THEN JsonMembers(toks, i + 4, added)
             ELSE BadObject

\* json.loads(s) for a text that begins with `{`: the object it spells, or
\* JSONDecodeError. The grammar is that of objects whose values are strings
\* and words, which is what the characters of Fragments can spell.
json_loads(s) ==
    LET lexed == JsonTokens(s, 1)
        toks == lexed.toks
    IN  IF ~lexed.ok \/ Len(toks) < 2 \/ toks[1].t # "{" THEN BadObject
        ELSE IF toks[2].t = "}"
        THEN IF Len(toks) = 2 THEN [ok |-> TRUE, obj |-> NoObject] ELSE BadObject
        ELSE JsonMembers(toks, 2, NoObject)

\* json.loads(s) succeeds and the mapping has both keys
KeepsRecord(s) ==
    LET parsed == json_loads(s)
    IN  parsed.ok /\ KeyId \in DOMAIN parsed.obj /\ KeyData \in DOMAIN parsed.obj

\* sequences of at most MaxFrags fragments
FragmentLists == UNION {[1..n -> Fragments] : n \in 0..MaxFrags}

NormalizeInit ==
    /\ corpus = <<>>
    /\ now = 1
    /\ pc = "idle"
    /\ preset = <<>>
    /\ count = 0
    /\ selected = <<>>
    /\ used_ids = {}
    /\ seen_ids = {}
    /\ attempts = 0
    /\ lastWrite = NoWrite
    /\ res = None
    /\ scan = None
    /\ pick = None
    /\ crop = None
    /\ \E fs \in FragmentLists :
          /\ html \in {PageOf(fs), JoinFragments(fs)}
          /\ norm = [pc |-> "call", frags |-> fs]

\* blob = _extract_js_array_contents(html, "preloadedPuzzles"); puzzles = []
NormalizeCall ==
    /\ norm.pc = "call"
    /\ LET r == _extract_js_array_contents(html, PreloadedPuzzles)
       IN  norm' = IF r.status = "ok"
                   THEN [pc |-> "loop", frags |-> norm.frags, blob |-> r.out,
                         pos |-> 1, puzzles |-> <<>>]
                   ELSE [pc |-> "done", frags |-> norm.frags,
                         status |-> r.status, puzzles |-> <<>>]
    /\ UNCHANGED <<html, scan, pick, crop, corpus, now, pc, preset, count,
                   selected, used_ids, seen_ids, attempts, lastWrite, res>>

\* one turn of the loop over the matches: rewrite, parse, keep or skip
NormalizeFragment ==
    /\ norm.pc = "loop"
    /\ LET pm == NextMatch(norm.blob, norm.pos)
           s == RewriteQuotes(SubSeq(norm.blob, pm.from, pm.to))
       IN  /\ pm.found
           /\ norm' = [norm EXCEPT
                          !.pos = pm.to + 1,
                          !.puzzles = IF KeepsRecord(s)
                                      THEN Append(@, json_loads(s).obj)
                                      ELSE @]
    /\ UNCHANGED <<html, scan, pick, crop, corpus, now, pc, preset, count,
                   selected, used_ids, seen_ids, attempts, lastWrite, res>>

\* no further match: return puzzles
NormalizeReturn ==
    /\ norm.pc = "loop"
    /\ ~NextMatch(norm.blob, norm.pos).found
    /\ norm' = [pc |-> "done", frags |-> norm.frags, status |-> "ok",
                puzzles |-> norm.puzzles]
    /\ UNCHANGED <<html, scan, pick, crop, corpus, now, pc, preset, count,
                   selected, used_ids, seen_ids, attempts, lastWrite, res>>

NormalizeNext == NormalizeCall \/ NormalizeFragment \/ NormalizeReturn

NormalizeSpec == NormalizeInit /\ [][NormalizeNext]_vars

---------------------------------------------------------------------------
(* pick_puzzle called on its own, on batches of up to ten candidates.      *)

\* the most puzzles stored between the calls of one behaviour
MaxStores == 1

\* a fetched batch of ten candidates: c0 .. c6, C7, c8, c9
Candidates ==
    [k \in 1..10 |->
        Puzzle((IF k = 8 THEN <<"C">> ELSE <<"c">>) \o DecStr(k - 1), 9)]

\* the first n candidates
FirstCandidates(n) == SubSeq(Candidates, 1, n)

\* the corpus after the first n candidates were stored by one get
RECURSIVE StoredCandidates(_)
StoredCandidates(n) ==
    IF n = 0 THEN <<>>
    ELSE write_puzzle_json(StoredCandidates(n - 1),
                           MakeDoc([puzzle |-> Candidates[n], i |-> n - 1,
                                    total |-> Len(Candidates)], Easy9, 1))

\* the batches given with an identifier or an index
IdBatches == {FirstCandidates(n) : n \in {0, 1, 2, 5, 6, 10}}

\* the identifiers given as puzzle_id
PickIds ==
    { <<"c">>, <<"C">>, <<"c", "3">>, <<"7">>, <<"d">>, <<" ", "c", "1", " ">>,
      <<"c", "7">>, <<"x">> }

\* the batches given to the random pick
RandomBatches == {FirstCandidates(n) : n \in {0, 3, 10}}

\* the seeds given as seed
Seeds == {"s1", "s2"}

\* random.Random(seed): the first word the generator yields is a function of
\* the seed alone; the table stands for the generator's
SeedWord(seed) == IF seed = "s1" THEN 4 ELSE 7

\* rng.randrange(n) of a generator without a seed: the entropy e decides
DrawUnseeded(seed, n, e) == e % n

\* rng = random.Random(seed); rng.randrange(n): decided by the seed when
\* there is one, by the entropy e of the process otherwise
Draw(seed, n, e) == IF seed.some THEN SeedWord(seed.v) % n ELSE e % n

PickInit ==
    /\ corpus \in {<<>>, StoredCandidates(7)}
    /\ now = 1
    /\ pc = "idle"
    /\ preset = <<>>
    /\ count = 0
    /\ selected = <<>>
    /\ used_ids = {}
    /\ seen_ids = {}
    /\ attempts = 0
    /\ lastWrite = NoWrite
    /\ res = None
    /\ html = <<>>
    /\ scan = None
    /\ norm = None
    /\ crop = None
    /\ pick = [pc |-> "idle", cur |-> None, prev |-> None, stores |-> 0]

\* pick_puzzle(puzzles, puzzle_id=f)
PickById ==
    /\ pick.pc = "idle"
    /\ \E puzzles \in IdBatches, f \in PickIds :
          pick' = [pick EXCEPT
                     !.pc = "done",
                     !.prev = None,
                     !.cur = [puzzles |-> puzzles, index |-> NoArg,
                              puzzle_id |-> Arg(f), seed |-> NoArg,
                              used |-> {},
                              out |-> pick_puzzle(puzzles, NoArg, Arg(f), {}, 0)]]
    /\ UNCHANGED <<html, scan, norm, crop, corpus, now, pc, preset, count,
                   selected, used_ids, seen_ids, attempts, lastWrite, res>>

\* pick_puzzle(puzzles, index=n)
PickByIndex ==
    /\ pick.pc = "idle"
    /\ \E puzzles \in RandomBatches, n \in {-1, 0, 1, 3, 4} :
          pick' = [pick EXCEPT
                     !.pc = "done",
                     !.prev = None,
                     !.cur = [puzzles |-> puzzles, index |-> Arg(n),
                              puzzle_id |-> NoArg, seed |-> NoArg,
                              used |-> {},
                              out |-> pick_puzzle(puzzles, Arg(n), NoArg, {}, 0)]]
    /\ UNCHANGED <<html, scan, norm, crop, corpus, now, pc, preset, count,
                   selected, used_ids, seen_ids, attempts, lastWrite, res>>

\* pick_puzzle(puzzles, seed=seed): the used ids are read from the corpus
PickRandom ==
    /\ pick.pc = "idle"
    /\ \E puzzles \in RandomBatches, seed \in {Arg(s) : s \in Seeds} \cup {NoArg},
          e \in 0..(Len(Candidates) - 1) :
          LET used == _previously_used_puzzle_ids(corpus)
              n == Len(RandomPool(puzzles, used))
              r == IF n = 0 THEN 0 ELSE Draw(seed, n, e)
          IN  pick' = [pick EXCEPT
                         !.pc = "done",
                         !.cur = [puzzles |-> puzzles, index |-> NoArg,
                                  puzzle_id |-> NoArg, seed |-> seed,
                                  used |-> used,
                                  out |-> pick_puzzle(puzzles, NoArg, NoArg, used, r)]]
    /\ UNCHANGED <<html, scan, norm, crop, corpus, now, pc, preset, count,
                   selected, used_ids, seen_ids, attempts, lastWrite, res>>

\* the caller stores the puzzle a random pick returned (cmd_get)
PickStore ==
    /\ pick.pc = "done"
    /\ pick.stores < MaxStores
    /\ ~pick.cur.puzzle_id.some
    /\ ~pick.cur.index.some
    /\ pick.cur.out.status = "ok"
    /\ corpus' = write_puzzle_json(corpus,
                     MakeDoc([puzzle |-> pick.cur.out.puzzle, i |-> pick.cur.out.i,
                              total |-> Len(pick.cur.puzzles)], Easy9, now))
    /\ pick' = [pick EXCEPT !.pc = "idle", !.stores = @ + 1, !.cur = None,
                            !.prev = IF pick.cur.seed.some THEN pick.cur ELSE None]
    /\ UNCHANGED <<html, scan, norm, crop, now, pc, preset, count,
                   selected, used_ids, seen_ids, attempts, lastWrite, res>>

\* the caller ends without storing; prev keeps the call if it had a seed
PickReturn ==
    /\ pick.pc = "done"
    /\ pick' = [pick EXCEPT !.pc = "idle", !.cur = None,
                            !.prev = IF pick.cur.seed.some THEN pick.cur ELSE None]
    /\ UNCHANGED <<html, scan, norm, crop, corpus, now, pc, preset, count,
                   selected, used_ids, seen_ids, attempts, lastWrite, res>>

PickNext == PickById \/ PickByIndex \/ PickRandom \/ PickStore \/ PickReturn

PickSpec == PickInit /\ [][PickNext]_vars

---------------------------------------------------------------------------
(* Crop geometry: cmd_reveal --box / --cell.                               *)

\* sudoku_fetcher.RENDER_INSET, the margin around the rendered grid
RENDER_INSET == 40

\* sudoku_fetcher.RENDER_CELL_SIZE, the side of a rendered cell
RENDER_CELL_SIZE == 60

\* the grid sizes of the documents revealed
Sizes == {4, 6, 9}

\* what sudoku_fetcher.get_block_dims(size) can return: (bw, bh) with
\* bw * bh = size
BlockDims(size) ==
    {d \in (1..size) \X (1..size) : d[1] * d[2] = size}

\* the side of the image render_reveal_image writes for a grid of this size
ImageSide(size) == 2 * RENDER_INSET + size * RENDER_CELL_SIZE

\* the rectangle img.crop is given: the region padded by 6 and clamped
Padded(x0, y0, x1, y1, w, h) ==
    <<Max({0, x0 - 6}), Max({0, y0 - 6}), Min({w, x1 + 6}), Min({h, y1 + 6})>>

\* crop_box_image with the block's height taken for its width
crop_box_image_swapped(bw, bh, box_r, box_c, margin, cell_size, w, h) ==
    LET x0 == margin + ((box_c - 1) * bh) * cell_size
        y0 == margin + ((box_r - 1) * bw) * cell_size
        x1 == x0 + (bh * cell_size)
        y1 == y0 + (bw * cell_size)
    IN  [x0 |-> x0, y0 |-> y0, x1 |-> x1, y1 |-> y1,
         crop |-> Padded(x0, y0, x1, y1, w, h)]

\* crop_box_image(size=, box_r=, box_c=) with (bw, bh) = get_block_dims(size)
\* on an image of w x h pixels
crop_box_image(bw, bh, box_r, box_c, margin, cell_size, w, h) ==
    LET br0 == box_r - 1
        bc0 == box_c - 1
        x0 == margin + (bc0 * bw) * cell_size
        y0 == margin + (br0 * bh) * cell_size
        x1 == x0 + (bw * cell_size)
        y1 == y0 + (bh * cell_size)
    IN  [x0 |-> x0, y0 |-> y0, x1 |-> x1, y1 |-> y1,
         crop |-> Padded(x0, y0, x1, y1, w, h)]

\* crop_cell_image(r=, c=) on an image of w x h pixels
crop_cell_image(r, c, margin, cell_size, w, h) ==
    LET rr0 == r - 1
        cc0 == c - 1
        x0 == margin + cc0 * cell_size
        y0 == margin + rr0 * cell_size
        x1 == x0 + cell_size
        y1 == y0 + cell_size
    IN  [x0 |-> x0, y0 |-> y0, x1 |-> x1, y1 |-> y1,
         crop |-> Padded(x0, y0, x1, y1, w, h)]

\* the document is loaded: its size and the block dimensions of that size
CropInit ==
    /\ corpus = <<>>
    /\ now = 1
    /\ pc = "idle"
    /\ preset = <<>>
    /\ count = 0
    /\ selected = <<>>
    /\ used_ids = {}
    /\ seen_ids = {}
    /\ attempts = 0
    /\ lastWrite = NoWrite
    /\ res = None
    /\ html = <<>>
    /\ scan = None
    /\ norm = None
    /\ pick = None
    /\ \E size \in Sizes : \E d \in BlockDims(size) :
          crop = [pc |-> "idle", size |-> size, bw |-> d[1], bh |-> d[2]]

\* reveal --box <idx>
RevealBoxIndex ==
    /\ crop.pc = "idle"
    /\ \E idx \in 0..(crop.size + 1) :
          LET boxes_per_row == crop.size \div crop.bw
              boxes_per_col == crop.size \div crop.bh
              total_boxes == boxes_per_row * boxes_per_col
              box_r == ((idx - 1) \div boxes_per_row) + 1
              box_c == ((idx - 1) % boxes_per_row) + 1
          IN  crop' = IF ~(1 <= idx /\ idx <= total_boxes)
                      THEN [crop EXCEPT !.pc = "done"] @@
                           [kind |-> "box", vals |-> <<idx>>, status |-> "OutOfRange"]
                      ELSE [crop EXCEPT !.pc = "done"] @@
                           [kind |-> "box", vals |-> <<idx>>, status |-> "ok",
                            idx |-> idx, r |-> box_r, c |-> box_c,
                            rect |-> crop_box_image(crop.bw, crop.bh, box_r, box_c,
                                        RENDER_INSET, RENDER_CELL_SIZE,
                                        ImageSide(crop.size), ImageSide(crop.size))]
    /\ UNCHANGED <<html, scan, norm, pick, corpus, now, pc, preset, count,
                   selected, used_ids, seen_ids, attempts, lastWrite, res>>

\* reveal --box <row> <col>
RevealBoxRowCol ==
    /\ crop.pc = "idle"
    /\ \E box_r \in 0..(crop.size + 1), box_c \in 0..(crop.size + 1) :
          LET boxes_per_row == crop.size \div crop.bw
              boxes_per_col == crop.size \div crop.bh
              idx == (box_r - 1) * boxes_per_row + box_c
          IN  crop' = IF ~(/\ 1 <= box_r /\ box_r <= boxes_per_col
                           /\ 1 <= box_c /\ box_c <= boxes_per_row)
                      THEN [crop EXCEPT !.pc = "done"] @@
                           [kind |-> "box", vals |-> <<box_r, box_c>>,
                            status |-> "OutOfRange"]
                      ELSE [crop EXCEPT !.pc = "done"] @@
                           [kind |-> "box", vals |-> <<box_r, box_c>>, status |-> "ok",
                            idx |-> idx, r |-> box_r, c |-> box_c,
                            rect |-> crop_box_image(crop.bw, crop.bh, box_r, box_c,
                                        RENDER_INSET, RENDER_CELL_SIZE,
                                        ImageSide(crop.size), ImageSide(crop.size))]
    /\ UNCHANGED <<html, scan, norm, pick, corpus, now, pc, preset, count,
                   selected, used_ids, seen_ids, attempts, lastWrite, res>>

\* reveal --cell <row> <col> --image
RevealCell ==
    /\ crop.pc = "idle"
    /\ \E r \in 0..(crop.size + 1), c \in 0..(crop.size + 1) :
          crop' = IF ~(1 <= r /\ r <= crop.size /\ 1 <= c /\ c <= crop.size)
                  THEN [crop EXCEPT !.pc = "done"] @@
                       [kind |-> "cell", vals |-> <<r, c>>, status |-> "OutOfRange"]
                  ELSE [crop EXCEPT !.pc = "done"] @@
                       [kind |-> "cell", vals |-> <<r, c>>, status |-> "ok",
                        r |-> r, c |-> c,
                        rect |-> crop_cell_image(r, c, RENDER_INSET, RENDER_CELL_SIZE,
                                    ImageSide(crop.size), ImageSide(crop.size))]
    /\ UNCHANGED <<html, scan, norm, pick, corpus, now, pc, preset, count,
                   selected, used_ids, seen_ids, attempts, lastWrite, res>>

\* the command ends; the document can be revealed again
RevealEnd ==
    /\ crop.pc = "done"
    /\ crop' = [pc |-> "idle", size |-> crop.size, bw |-> crop.bw, bh |-> crop.bh]
    /\ UNCHANGED <<html, scan, norm, pick, corpus, now, pc, preset, count,
                   selected, used_ids, seen_ids, attempts, lastWrite, res>>

CropNext == RevealBoxIndex \/ RevealBoxRowCol \/ RevealCell \/ RevealEnd

CropSpec == CropInit /\ [][CropNext]_vars

---------------------------------------------------------------------------
(* Properties of the corpus store, checked under Spec.                     *)

\* a resolve has just ended; res holds its identifier and outcome
Resolved == pc = "exit" /\ res.op = "resolve"

\* the identifier as resolve compares it: surrounding whitespace removed
Normalized(q) == Strip(q)

\* 1 to 64 characters, each a hex digit or a hyphen
WellFormedId(s) ==
    /\ 1 <= Len(s)
    /\ Len(s) <= MaxIdLen
    /\ \A i \in 1..Len(s) : s[i] \in HexChars \cup {"-"}

\* positions of the files whose name ends with _<short segment of q>.json
SuffixMatches(q) ==
    {i \in 1..Len(corpus) :
        EndsWith(Lower(corpus[i].name),
                 <<"_">> \o Lower(FirstSegment(Normalized(q))) \o <<".", "j", "s", "o", "n">>)}

\* positions of the files whose document carries picked.id q, case-insensitively
IdMatches(q) ==
    {i \in 1..Len(corpus) :
        corpus[i].doc.ok /\ Lower(corpus[i].doc.id) = Lower(Normalized(q))}

NamesOf(c) == [i \in 1..Len(c) |-> c[i].name]

\* the names at the positions P of the corpus, most recent first
NewestFirst(P) ==
    LET in == SelectSeq(corpus, LAMBDA f : \E i \in P : corpus[i] = f)
    IN  Reverse(NamesOf(in))

\* C1: after a write completes, resolve by the written document's full id
\* returns the path just written, and the file there holds exactly the
\* document written, whatever other documents (same short id, same full id)
\* the corpus holds.
C1_ResolveReturnsWritten ==
    (/\ Resolved
     /\ lastWrite.path # <<>>
     /\ Lower(res.q) = Lower(lastWrite.doc.id))
    => /\ res.status = "ok"
       /\ res.path = lastWrite.path
       /\ \E i \in 1..Len(corpus) :
            corpus[i].name = res.path /\ corpus[i].doc = lastWrite.doc

\* C1 witness: the resolve of the last written id, with another document of
\* the same short id (as filenames are matched) and another full id, and an
\* older document of the same full id
C1_Witness ==
    /\ Resolved
    /\ lastWrite.path # <<>>
    /\ res.q = lastWrite.doc.id
    /\ res.status = "ok"
    /\ \E i \in 1..Len(corpus) :
         /\ corpus[i].doc.ok
         /\ corpus[i].doc.id # res.q
         /\ Lower(FirstSegment(corpus[i].doc.id)) = Lower(FirstSegment(res.q))
    /\ \E i \in 1..Len(corpus) :
         /\ corpus[i].doc.ok
         /\ corpus[i].doc.id = res.q
         /\ corpus[i].name # res.path

\* C2 (as claimed): a write never replaces the document of a puzzle with a
\* different full id, i.e. the filenames of two distinct puzzles created in
\* the same second do not collide.
C2_NoFilenameCollision ==
    [][\A i \in 1..Len(corpus) : \A j \in 1..Len(corpus') :
          (/\ corpus[i].doc.ok
           /\ corpus'[j].doc.ok
           /\ corpus'[j].name = corpus[i].name)
          => corpus'[j].doc.id = corpus[i].doc.id]_vars

\* C3 (as claimed): a write that fails leaves the corpus exactly as it was,
\* and no file of the corpus ever holds a partially written document.
C3_WriteAtomic ==
    [][(pc = "store" /\ pc' = "exit" /\ res'.status = "WriteFailed")
          => /\ corpus' = corpus
             /\ \A i \in 1..Len(corpus') : corpus'[i].doc.ok]_vars

\* the full ids of the complete documents among the positions P
FullIds(P) == {corpus[i].doc.id : i \in {j \in P : corpus[j].doc.ok}}

\* a resolve by a short id (no hyphen) whose filename suffix matches
\* documents of exactly 3 distinct full ids
ShortIdOfThree ==
    /\ Resolved
    /\ WellFormedId(Normalized(res.q))
    /\ ~HasHyphen(Normalized(res.q))
    /\ Cardinality(FullIds(SuffixMatches(res.q))) = 3

\* C4 (as claimed): resolve by a short id matching 3 distinct full ids fails
\* AmbiguousIdentifier.
C4_ResolveAmbiguous == ShortIdOfThree => res.status = "AmbiguousIdentifier"

\* the ids of the candidates of a batch that contain the fragment q
FragmentMatches(batch, q) ==
    LET at == {i \in 1..Len(batch) : Contains(Lower(Normalized(q)), Lower(batch[i].id))}
        RECURSIVE Ids(_)
        Ids(k) == IF k > Len(batch) THEN <<>>
                  ELSE IF k \in at THEN <<batch[k].id>> \o Ids(k + 1) ELSE Ids(k + 1)
    IN  Ids(1)

\* C4 (amended): resolve by a short id matching 3 distinct full ids does not
\* fail: it returns the most recent of the matching files. AmbiguousIdentifier
\* is raised by pick, for an explicit fragment that matches 2 to 5 candidates
\* of the fetched batch, and lists every matching id in batch order.
C4_AmbiguityOnlyInPick ==
    /\ ShortIdOfThree =>
         /\ res.status = "ok"
         /\ res.path = corpus[Max(SuffixMatches(res.q))].name
    /\ (/\ pc = "exit"
        /\ res.op = "pick"
        /\ res.q.some
        /\ WellFormedId(Normalized(res.q.v))
        /\ Len(FragmentMatches(res.batch, res.q.v)) \in 2..5)
       => /\ res.status = "AmbiguousIdentifier"
          /\ res.ids = FragmentMatches(res.batch, res.q.v)
          /\ res.extra = 0

\* C4 witness: the resolve by short id over files of 3 distinct full ids
C4_Witness == ShortIdOfThree /\ res.status = "ok"

\* C5: resolve by a full id (an identifier with a hyphen) returns the most
\* recent document whose picked.id equals the identifier case-insensitively,
\* reading the suffix candidates most recent first up to it; it fails
\* NotFound exactly when no document carries that picked.id, after reading
\* every suffix candidate and then every document, most recent first.
C5_ResolveFullId ==
    (/\ Resolved
     /\ WellFormedId(Normalized(res.q))
     /\ HasHyphen(Normalized(res.q)))
    => IF IdMatches(res.q) = {}
       THEN /\ res.status = "NotFound"
            /\ res.path = <<>>
            /\ res.reads = NewestFirst(SuffixMatches(res.q))
                             \o NewestFirst(1..Len(corpus))
       ELSE /\ res.status = "ok"
            /\ res.path = corpus[Max(IdMatches(res.q))].name
            /\ res.reads = NewestFirst({i \in SuffixMatches(res.q) :
                                          i >= Max(IdMatches(res.q))})

\* C5 witness: a full id found after a more recent candidate of the same
\* short id was read and rejected
C5_Witness ==
    /\ Resolved
    /\ HasHyphen(Normalized(res.q))
    /\ res.status = "ok"
    /\ Len(res.reads) >= 2

\* C6: resolve by a short segment (no hyphen) that is the suffix of at least
\* one stored filename returns the most recent such file and reads no
\* document; find_puzzle_json_by_short_id returns the same file.
C6_ResolveShortId ==
    (/\ Resolved
     /\ WellFormedId(Normalized(res.q))
     /\ ~HasHyphen(Normalized(res.q))
     /\ SuffixMatches(res.q) # {})
    => /\ res.status = "ok"
       /\ res.path = corpus[Max(SuffixMatches(res.q))].name
       /\ res.reads = <<>>
       /\ find_puzzle_json_by_short_id(corpus, res.q).path = res.path

\* C6 witness: a short id with two matching files, the most recent of which
\* holds a torn document (it is returned unread)
C6_Witness ==
    /\ Resolved
    /\ ~HasHyphen(Normalized(res.q))
    /\ Cardinality(SuffixMatches(res.q)) >= 2
    /\ ~corpus[Max(SuffixMatches(res.q))].doc.ok
    /\ res.status = "ok"

\* C7 (as claimed): resolve fails InvalidIdentifier for every identifier that
\* is not 1 to 64 characters of hex digits and hyphens.
C7_InvalidAsGiven ==
    (Resolved /\ ~WellFormedId(res.q)) => res.status = "InvalidIdentifier"

\* C7 (amended): resolve fails InvalidIdentifier, returning no document and
\* reading none, for every identifier that, once its leading and trailing
\* whitespace is stripped, is not 1 to 64 characters of hex digits and hyphens.
C7_InvalidAfterStrip ==
    (Resolved /\ ~WellFormedId(Strip(res.q)))
    => /\ res.status = "InvalidIdentifier"
       /\ res.path = <<>>
       /\ res.reads = <<>>

\* C7 witness: an identifier of 65 hex digits is refused over a corpus that
\* holds documents
C7_Witness ==
    /\ Resolved
    /\ Len(res.q) = MaxIdLen + 1
    /\ corpus # <<>>
    /\ res.status = "InvalidIdentifier"

---------------------------------------------------------------------------
(* Properties of the extractor, checked under ExtractSpec.                 *)

\* the number of consecutive backslashes that end right before position k
RECURSIVE BackslashRun(_, _)
BackslashRun(h, k) ==
    IF k > 1 /\ h[k - 1] = "\\" THEN 1 + BackslashRun(h, k - 1) ELSE 0

\* what position k of h lies in, reading from the opening bracket at o:
\* "N" outside any string, else the quote that opened the string it is in.
\* A string ends at a quote of its own kind that is unescaped, i.e. preceded
\* by an even number of backslashes (the quote that opened the string ends
\* any such run).
RECURSIVE ModeAfter(_, _, _)
ModeAfter(h, o, k) ==
    IF k <= o THEN "N"
    ELSE LET prev == ModeAfter(h, o, k - 1)
         IN  IF prev = "N"
             THEN IF h[k] \in {"'", "\""} THEN h[k] ELSE "N"
             ELSE IF h[k] = prev /\ BackslashRun(h, k) % 2 = 0 THEN "N" ELSE prev

\* the bracket depth after position k: brackets outside strings, from o on
BracketDepth(h, o, k) ==
    Cardinality({j \in o..k : h[j] = "[" /\ ModeAfter(h, o, j) = "N"})
    - Cardinality({j \in o..k : h[j] = "]" /\ ModeAfter(h, o, j) = "N"})

\* the position of the bracket that closes the one at o, 0 when there is none
ClosingBracket(h, o) ==
    LET at == {k \in (o + 1)..Len(h) : BracketDepth(h, o, k) = 0}
    IN  IF at = {} THEN 0 ELSE Min(at)

\* the extractor's outcome is that of reading the array after the first
\* occurrence of marker m
ExtractsAfter(m) ==
    scan.pc = "done" =>
        LET p == Find(html, m)
            o == p + Len(m)
        IN  /\ scan.status = "NotFound" <=> p < 0
            /\ scan.status = "ok" <=> (p >= 0 /\ ClosingBracket(html, o) # 0)
            /\ scan.status = "ok" =>
                 scan.out = SubSeq(html, o + 1, ClosingBracket(html, o) - 1)

\* C9 (as claimed): the extractor reads the array after the first occurrence
\* of `<name> = [` and fails NotFound if that marker is absent.
C9_MarkerIsNameAssign ==
    ExtractsAfter(PreloadedPuzzles \o <<" ", "=", " ", "[">>)

\* C9 (amended): the extractor locates the first occurrence of the marker
\* `const <name> = [` and returns exactly the text strictly between that
\* opening bracket and the bracket at which the depth returns to 0; it fails
\* NotFound exactly when `const <name> = [` is absent.
C9_MarkerIsConstAssign == ExtractsAfter(Marker(PreloadedPuzzles))

\* C9 witness: a page with two arrays; the first one is returned
C9_Witness ==
    /\ scan.pc = "done"
    /\ scan.status = "ok"
    /\ scan.out = <<"a">>
    /\ Find(html, Marker(PreloadedPuzzles) \o <<"b">>) > 0

\* C10: while scanning, the depth register counts only brackets outside
\* strings, and the scanner is in a string exactly where the text is: a
\* string is left only at an unescaped quote of the kind that opened it. The
\* array holding the value "a\\]b" is returned whole.
C10_BracketsInStringsIgnored ==
    /\ scan.pc = "scan" =>
         LET o == scan.start + 1
             m == ModeAfter(html, o, scan.i)
         IN  /\ scan.depth = BracketDepth(html, o, scan.i)
             /\ scan.in_string <=> m # "N"
             /\ scan.in_string => scan.string_quote = m
             /\ scan.escape =>
                  (scan.in_string /\ html[scan.i] = "\\")
    /\ (scan.pc = "done"
        /\ html = Marker(PreloadedPuzzles) \o EscapedBody \o <<"]", ";">>)
       => (scan.status = "ok" /\ scan.out = EscapedBody)

\* C10 witness: the scanner is past the `]` of the value "a\\]b", still in
\* the string, at depth 1
C10_Witness ==
    /\ html = Marker(PreloadedPuzzles) \o EscapedBody \o <<"]", ";">>
    /\ scan.pc = "scan"
    /\ scan.i > scan.start
    /\ html[scan.i] = "]"
    /\ scan.in_string
    /\ scan.depth = 1

\* C11: when the marker is present and the end of the text is reached before
\* the bracket depth returns to 0 (at the end of the text the depth is still
\* positive, also when an unterminated string holds the closing bracket), the
\* extractor fails with MalformedInput and returns no substring; it fails so
\* in no other case.
C11_UnterminatedIsMalformed ==
    /\ (scan.pc = "scan" /\ scan.i = Len(html)) => scan.depth > 0
    /\ scan.pc = "done" =>
         LET p == Find(html, Marker(PreloadedPuzzles))
             o == p + Len(Marker(PreloadedPuzzles))
         IN  /\ scan.status = "MalformedInput"
                  <=> (p >= 0 /\ ClosingBracket(html, o) = 0)
             /\ scan.status = "MalformedInput" => scan.out = <<>>

\* C11 witness: the extractor has failed on a page whose closing bracket lies
\* in a string that is never closed
C11_Witness ==
    /\ scan.pc = "done"
    /\ scan.status = "MalformedInput"
    /\ LET o == Find(html, Marker(PreloadedPuzzles)) + Len(Marker(PreloadedPuzzles))
       IN  \E k \in (o + 1)..Len(html) :
               /\ html[k] = "]"
               /\ ModeAfter(html, o, k) # "N"
               /\ ModeAfter(html, o, Len(html)) # "N"

---------------------------------------------------------------------------
(* Properties of the normalizer, checked under NormalizeSpec.              *)

\* a fragment is valid: one object literal from `{` to `}` that parses after
\* the quote rewriting and has both an id key and a data key
ValidFragment(f) ==
    /\ Len(f) >= 2
    /\ f[1] = "{"
    /\ f[Len(f)] = "}"
    /\ KeepsRecord(RewriteQuotes(f))

\* the records of the valid fragments of fs, in source order
RECURSIVE ValidRecords(_)
ValidRecords(fs) ==
    IF fs = <<>> THEN <<>>
    ELSE IF ValidFragment(Head(fs))
    THEN <<json_loads(RewriteQuotes(Head(fs))).obj>> \o ValidRecords(Tail(fs))
    ELSE ValidRecords(Tail(fs))

\* C12: for a well-formed embedded array of N valid fragments and M malformed
\* ones, the normalizer returns without raising, and what it returns is
\* exactly the records of the N valid fragments, in source order.
C12_ValidRecordsKept ==
    (norm.pc = "done" /\ html = PageOf(norm.frags)) =>
        /\ norm.status = "ok"
        /\ norm.puzzles = ValidRecords(norm.frags)

---------------------------------------------------------------------------
(* Properties of the picker, checked under PickSpec.                       *)

\* a pick by identifier has returned
PickedById == pick.pc = "done" /\ pick.cur.puzzle_id.some

\* positions (1-based) of the candidates whose id holds the fragment f at some
\* offset, letter case apart
MatchingAt(batch, f) ==
    {k \in 1..Len(batch) :
        \E a \in 1..(Len(batch[k].id) - Len(f) + 1) :
            Lower(SubSeq(batch[k].id, a, a + Len(f) - 1)) = Lower(f)}

\* the ids of a batch at the positions of P, in batch order, at most n of them
RECURSIVE IdsAt(_, _, _)
IdsAt(batch, P, n) ==
    IF P = {} \/ n = 0 THEN <<>>
    ELSE <<batch[Min(P)].id>> \o IdsAt(batch, P \ {Min(P)}, n - 1)

\* C13: pick by a well-formed identifier fragment (blanks around it apart)
\* matches it case-insensitively as a substring of every candidate's id. With
\* exactly one match it returns that candidate and its batch position; with
\* none it fails NotFound; with k > 1 matches it fails AmbiguousIdentifier,
\* reporting the first min(5, k) matching ids in batch order and k - 5 as the
\* truncation count when k > 5 (none otherwise).
C13_PickByFragment ==
    (/\ PickedById
     /\ pick.cur.puzzles # <<>>
     /\ WellFormedId(Normalized(pick.cur.puzzle_id.v)))
    => LET batch == pick.cur.puzzles
           M == MatchingAt(batch, Normalized(pick.cur.puzzle_id.v))
           k == Cardinality(M)
           out == pick.cur.out
       IN  /\ k = 0 => out.status = "NotFound"
           /\ k = 1 => /\ out.status = "ok"
                       /\ out.i = Min(M) - 1
                       /\ out.puzzle = batch[Min(M)]
           /\ k > 1 => /\ out.status = "AmbiguousIdentifier"
                       /\ out.n = k
                       /\ out.ids = IdsAt(batch, M, IF k < 5 THEN k ELSE 5)
                       /\ out.extra = (IF k > 5 THEN k - 5 ELSE 0)

\* C13 witness: a fragment in capitals matches all ten candidates; five ids
\* are reported and five more are counted
C13_Witness ==
    /\ PickedById
    /\ pick.cur.puzzle_id.v = <<"C">>
    /\ pick.cur.out.status = "AmbiguousIdentifier"
    /\ Len(pick.cur.out.ids) = 5
    /\ pick.cur.out.extra = 5

\* a random pick (no identifier, no index) over a non-empty batch has returned
PickedAtRandom ==
    /\ pick.pc = "done"
    /\ ~pick.cur.puzzle_id.some
    /\ ~pick.cur.index.some
    /\ pick.cur.puzzles # <<>>

\* the ids of the documents of the corpus
UsedIdSet == {corpus[k].doc.id : k \in {j \in 1..Len(corpus) : corpus[j].doc.ok}}

\* C14: a random pick over a non-empty batch returns a candidate of the batch
\* at its batch position; its id is absent from the UsedIdSet of the corpus
\* whenever the batch has such a candidate (of ten candidates with seven used
\* ids, one of the remaining three), and only when every candidate's id is
\* used is it drawn from the whole batch.
C14_RandomPrefersUnused ==
    PickedAtRandom =>
        LET batch == pick.cur.puzzles
            out == pick.cur.out
            unused == {k \in 1..Len(batch) : batch[k].id \notin UsedIdSet}
        IN  /\ out.status = "ok"
            /\ out.i + 1 \in 1..Len(batch)
            /\ out.puzzle = batch[out.i + 1]
            /\ unused # {} => out.i + 1 \in unused
            /\ (Len(batch) = 10 /\ Cardinality(unused) = 3)
                   => out.puzzle.id \in {<<"C", "7">>, <<"c", "8">>, <<"c", "9">>}

\* C14 witness: ten candidates, seven of them used; one of the other three
\* is returned
C14_Witness ==
    /\ PickedAtRandom
    /\ Len(pick.cur.puzzles) = 10
    /\ Cardinality({k \in 1..10 : pick.cur.puzzles[k].id \in UsedIdSet}) = 7
    /\ pick.cur.out.puzzle.id = <<"c", "9">>

\* the batch has only used ids and the pick draws from all of it
C14_FallbackWitness ==
    /\ PickedAtRandom
    /\ \A k \in 1..Len(pick.cur.puzzles) : pick.cur.puzzles[k].id \in UsedIdSet
    /\ pick.cur.out.i = 2

\* C15: a random pick is deterministic under an explicit seed: a call with
\* the same seed, the same batch and the same used ids (the same corpus) as
\* an earlier call returns the same candidate and the same batch position.
C15_SeedDeterminism ==
    (/\ pick.pc = "done"
     /\ pick.prev # None
     /\ pick.cur.seed.some
     /\ pick.cur.seed = pick.prev.seed
     /\ pick.cur.puzzles = pick.prev.puzzles
     /\ pick.cur.used = pick.prev.used)
    => pick.cur.out = pick.prev.out

\* C15 witness: the second of two calls with the same seed, batch and corpus
\* has returned what the first returned
C15_Witness ==
    /\ pick.pc = "done"
    /\ pick.prev # None
    /\ pick.cur.seed.some
    /\ pick.cur.seed = pick.prev.seed
    /\ pick.cur.puzzles = pick.prev.puzzles
    /\ Len(pick.cur.puzzles) = 10
    /\ pick.cur.used = pick.prev.used
    /\ pick.cur.out.status = "ok"
    /\ pick.cur.out = pick.prev.out

\* the same seed and batch over a corpus that has grown: another candidate
C15_CorpusMatters ==
    /\ pick.pc = "done"
    /\ pick.prev # None
    /\ pick.cur.seed.some
    /\ pick.cur.seed = pick.prev.seed
    /\ pick.cur.puzzles = pick.prev.puzzles
    /\ pick.cur.used # pick.prev.used
    /\ pick.cur.out # pick.prev.out

---------------------------------------------------------------------------
(* Properties of the batch get, checked under Spec.                        *)

\* the attempt budget of a run that asks for n puzzles
Budget(n) == Max({5, n * 4})

\* a batch get has failed for want of new puzzles
BatchFailed ==
    /\ pc = "exit"
    /\ res.op = "get"
    /\ res.status = "InsufficientUniquePuzzles"

\* C16: a get of count > 1 puzzles makes at most max(5, count*4) fetches, one
\* per attempt, and leaves the loop only with count items or with the budget
\* used up; it fails InsufficientUniquePuzzles exactly when it has fewer than
\* count items at that point, and the number it reports is the number of
\* items it collected.
C16_AttemptBudget ==
    [][/\ pc' = "select" => attempts' \in 0..Budget(count')
       /\ (pc = "select" /\ pc' = "select")
            => (attempts' = attempts + 1 /\ Len(selected) < count)
       /\ (pc = "select" /\ pc' # "select")
            => /\ Len(selected) >= count \/ attempts = Budget(count)
               /\ IF Len(selected) < count
                  THEN /\ BatchFailed'
                       /\ res'.obtained = Len(selected)
                       /\ res'.requested = count
                       /\ res'.attempts = Budget(count)
                  ELSE /\ pc' = "store"
                       /\ selected' = selected
                       /\ Len(selected) = count
       /\ BatchFailed' => pc = "select"
      ]_vars

\* C16 witness: a get of 3 puzzles over an upstream with only 2 ids that are
\* not in the corpus has failed after 12 fetches, reporting 2
C16_Witness ==
    /\ BatchFailed
    /\ res.preset = Easy9
    /\ res.requested = 3
    /\ res.obtained = 2
    /\ res.attempts = 12
    /\ Cardinality({IdAb1, IdAb2, IdAb3} \ UsedIdSet) = 2

---------------------------------------------------------------------------
(* Properties of the crop geometry, checked under CropSpec.                *)

\* a box or a cell in range has been cropped
Cropped(kind) == crop.pc = "done" /\ crop.kind = kind /\ crop.status = "ok"

\* the columns and the rows of the grid that the box (r, c) covers
BoxColumns(c) == ((c - 1) * crop.bw + 1)..(c * crop.bw)

BoxRows(r) == ((r - 1) * crop.bh + 1)..(r * crop.bh)

\* C17: for every box (row, col) in range the unpadded rectangle starts at
\* x0 = margin + (col-1)*block_width*cell_px, y0 = margin +
\* (row-1)*block_height*cell_px and spans one block: it is the rectangle of
\* the cells the box covers. The rectangle of a cell is given by the same
\* formula with spans of one cell. A box index idx is the box in row
\* (idx-1) div boxes_per_row + 1 and column (idx-1) mod boxes_per_row + 1,
\* the boxes counted row by row. For size 9 and blocks of 3 x 3, with cells
\* of 60 pixels and a margin of 40, box 5 is (2, 2) at x0 = y0 = 220 and cell
\* (5, 5) is at x0 = y0 = 280.
C17_CropGeometry ==
    /\ Cropped("box") =>
         LET m == RENDER_INSET
             px == RENDER_CELL_SIZE
             t == crop.rect
             per_row == crop.size \div crop.bw
         IN  /\ t.x0 = m + (crop.c - 1) * crop.bw * px
             /\ t.y0 = m + (crop.r - 1) * crop.bh * px
             /\ t.x1 - t.x0 = crop.bw * px
             /\ t.y1 - t.y0 = crop.bh * px
             /\ \A col \in BoxColumns(crop.c), row \in BoxRows(crop.r) :
                   LET cell == crop_cell_image(row, col, m, px,
                                   ImageSide(crop.size), ImageSide(crop.size))
                   IN  /\ t.x0 <= cell.x0 /\ cell.x1 <= t.x1
                       /\ t.y0 <= cell.y0 /\ cell.y1 <= t.y1
             /\ crop.c \in 1..per_row
             /\ crop.idx = (crop.r - 1) * per_row + crop.c
             /\ Len(crop.vals) = 1 =>
                  /\ crop.idx = crop.vals[1]
                  /\ crop.r = ((crop.vals[1] - 1) \div per_row) + 1
                  /\ crop.c = ((crop.vals[1] - 1) % per_row) + 1
             /\ (crop.size = 9 /\ crop.bw = 3 /\ crop.bh = 3 /\ crop.vals = <<5>>)
                  => (crop.r = 2 /\ crop.c = 2 /\ t.x0 = 220 /\ t.y0 = 220)
    /\ Cropped("cell") =>
         LET t == crop.rect
         IN  /\ t.x0 = RENDER_INSET + (crop.c - 1) * RENDER_CELL_SIZE
             /\ t.y0 = RENDER_INSET + (crop.r - 1) * RENDER_CELL_SIZE
             /\ t.x1 - t.x0 = RENDER_CELL_SIZE
             /\ t.y1 - t.y0 = RENDER_CELL_SIZE
             /\ crop.vals = <<5, 5>> => (t.x0 = 280 /\ t.y0 = 280)

\* C17 witness: box 5 of a 9 x 9 grid with blocks of 3 x 3 has been cropped
\* at (220, 220)
C17_Witness ==
    /\ Cropped("box")
    /\ crop.size = 9
    /\ crop.bw = 3
    /\ crop.bh = 3
    /\ crop.vals = <<5>>
    /\ crop.r = 2
    /\ crop.c = 2
    /\ crop.rect.x0 = 220
    /\ crop.rect.y0 = 220

\* cell (5, 5) of a 9 x 9 grid has been cropped at (280, 280)
C17_CellWitness ==
    /\ Cropped("cell")
    /\ crop.size = 9
    /\ crop.vals = <<5, 5>>
    /\ crop.rect.x0 = 280
    /\ crop.rect.y0 = 280

---------------------------------------------------------------------------
(* Further properties of the batch get, checked under Spec.                *)

\* C18 (as claimed): when the selection of a batch get succeeds, the selected
\* items are exactly count, their ids are pairwise distinct, and none of them
\* is an id of the corpus the run started from.
C18_SelectedDistinctAndNew ==
    (pc = "store" /\ count > 1 /\ Len(selected) = count) =>
        /\ \A a, b \in 1..Len(selected) :
              selected[a].puzzle.id = selected[b].puzzle.id => a = b
        /\ \A a \in 1..Len(selected) : selected[a].puzzle.id \notin UsedIdSet

\* C19: while a batch get collects its items no document is written, and when
\* it fails with InsufficientUniquePuzzles the corpus is the one the run
\* started from, with the used ids the run had read from it, whatever it had
\* collected.
C19_FailedBatchWritesNothing ==
    [][(pc = "select" \/ pc' = "select") =>
          /\ corpus' = corpus
          /\ BatchFailed' => UsedIdSet' = used_ids
      ]_vars

\* C19 witness: a batch get has failed after it had collected an item
C19_Witness ==
    /\ BatchFailed
    /\ res.obtained > 0
    /\ res.obtained < res.requested

===========================================================================
